---- MODULE Spec2Model ----
(***************************************************************************)
(* Model of tools/data_converter/scannet_data_utils.py:                    *)
(*   ScanNetData.get_infos      (thread pool over process_single_scene)    *)
(*   ScanNetSegData             (_convert_to_label and                     *)
(*                               get_scene_idxs_and_label_weight)          *)
(***************************************************************************)
EXTENDS Integers, Sequences, FiniteSets, TLC

\* ---------------------------------------------------------------- bounds
\* longest sample_id_list handed to get_infos
MaxScenes == 2
\* largest num_workers handed to get_infos
MaxWorkers == 2
\* largest row count of a *_bbox.npy array
MaxBoxes == 2
\* most runs of equal raw ids in a semantic mask whose ids range freely
MaxRuns == 2
\* most info records when the records' point counts range freely
MaxInfos == 3

\* ------------------------------------------------------- ScanNetData tables
classes ==
  << "cabinet", "bed", "chair", "sofa", "table", "door", "window",
     "bookshelf", "picture", "counter", "desk", "curtain",
     "refrigerator", "showercurtrain", "toilet", "sink", "bathtub",
     "garbagebin" >>

det_cat_ids ==
  << 3, 4, 5, 6, 7, 8, 9, 10, 11, 12, 14, 16, 24, 28, 33, 34, 36, 39 >>

\* self.cat2label = {cat: self.classes.index(cat) for cat in self.classes}
cat2label == [c \in {classes[i] : i \in 1..Len(classes)} |->
                (CHOOSE i \in 1..Len(classes) : classes[i] = c) - 1]

\* self.label2cat = {self.cat2label[t]: t for t in self.cat2label}
label2cat == [l \in {cat2label[c] : c \in DOMAIN cat2label} |->
                CHOOSE c \in DOMAIN cat2label : cat2label[c] = l]

\* self.cat_ids2class = {nyu40id: i for i, nyu40id in enumerate(cat_ids)}
cat_ids2class == [id \in {det_cat_ids[i] : i \in 1..Len(det_cat_ids)} |->
                    (CHOOSE i \in 1..Len(det_cat_ids) : det_cat_ids[i] = id) - 1]

\* ------------------------------------------------------------ file values
NoFile == [present |-> FALSE, fmt |-> "", dtype |-> "", data |-> << >>]

NpyFile(dtype, data) ==
  [present |-> TRUE, fmt |-> "npy", dtype |-> dtype, data |-> data]

\* variant: a file opened for appending keeps what it held
TofileAppend(arr, old) ==
  [present |-> TRUE, fmt |-> "bin", dtype |-> arr.dtype,
   data |-> old.data \o arr.data]

\* ndarray.tofile: the array's elements, flat, in the array's dtype, no header;
\* the file is opened for writing, so what it held before is discarded.
tofile(arr, old) ==
  [present |-> TRUE, fmt |-> "bin", dtype |-> arr.dtype, data |-> arr.data]

\* np.load(path): the stored array, or FileNotFoundError when path is absent
np_load(file) == [dtype |-> file.dtype, data |-> file.data]

\* ndarray.astype(np.long)
astype_long(arr) == [dtype |-> "int64", data |-> arr.data]


\* ------------------------------------------------------------- the dataset
RAW_DIR == "scannet_train_instance_data"
OUT_DIRS == {"points", "instance_mask", "semantic_mask"}

\* one row of a *_bbox.npy array: 6 box parameters and the raw class id
BoxRow(id) == << id + 1, id + 2, id + 3, 1, 2, 3, id >>

\* raw class ids a box row may carry: two ids of the detection table, one id
\* of the segmentation table only (2), one id of neither table (13)
BoxIds == {3, 39, 2, 13}

RECURSIVE SeqsUpTo(_, _)
SeqsUpTo(S, n) ==
  IF n = 0 THEN {<< >>}
  ELSE LET shorter == SeqsUpTo(S, n - 1)
       IN  shorter \cup {Append(q, x) : q \in {r \in shorter : Len(r) = n - 1}, x \in S}

BoxFile(ids) == NpyFile("float64", [i \in 1..Len(ids) |-> BoxRow(ids[i])])

SceneRaw(hasVert, hasIns, hasSem, bbox, s) ==
  [vert |-> IF hasVert THEN NpyFile("float32", << <<s, "xyzrgb">> >>) ELSE NoFile,
   ins  |-> IF hasIns THEN NpyFile("uint32", << <<s, "ins">> >>) ELSE NoFile,
   sem  |-> IF hasSem THEN NpyFile("uint32", << <<s, "sem">> >>) ELSE NoFile,
   bbox |-> bbox]

\* a canonical file left by a conversion of older raw data
StaleFile == [present |-> TRUE, fmt |-> "bin", dtype |-> "int64",
              data |-> << <<"old", "old">> >>]

\* scenes of fixed content, used when several scenes run in the pool
PoolScenes == {"scene0000_00", "scene0001_00", "scene0002_00",
               "scene0003_00", "scene0004_00"}
\* the scene whose raw files range over every combination
ProbeScene == "scene0005_00"
SceneIds == PoolScenes \cup {ProbeScene}

PoolRaw ==
  [s \in SceneIds |->
     CASE s = "scene0000_00" -> SceneRaw(TRUE, TRUE, TRUE, BoxFile(<<3, 39>>), s)
       [] s = "scene0001_00" -> SceneRaw(TRUE, TRUE, TRUE, BoxFile(<< >>), s)
       [] s = "scene0002_00" -> SceneRaw(TRUE, TRUE, TRUE, BoxFile(<<3, 13>>), s)
       [] s = "scene0003_00" -> SceneRaw(TRUE, TRUE, TRUE, NoFile, s)
       [] s = "scene0004_00" -> SceneRaw(TRUE, TRUE, FALSE, BoxFile(<<3>>), s)
       [] OTHER              -> SceneRaw(TRUE, TRUE, TRUE, BoxFile(<<39>>), s)]

PoolStale == {"scene0000_00", "scene0004_00"}

ProbeRaws ==
  {SceneRaw(v, i, m, b, ProbeScene) :
     v \in BOOLEAN, i \in BOOLEAN, m \in BOOLEAN,
     b \in {NoFile} \cup {BoxFile(ids) : ids \in SeqsUpTo(BoxIds, MaxBoxes)}}

FilesWithStale(stale) ==
  [d \in OUT_DIRS |-> [s \in SceneIds |-> IF s \in stale THEN StaleFile ELSE NoFile]]

\* ------------------------------------------------------------------ state
VARIABLES
  raw,                  \* root/scannet_train_instance_data/{id}_*.npy
  files,                \* root/{points,instance_mask,semantic_mask}/{id}.bin
  files0,               \* files as they were before the first get_infos call
  dirs,                 \* the output directories that exist
  self_sample_id_list,  \* ScanNetData.sample_id_list (the split file's lines)
  arg_sample_id_list,   \* get_infos(sample_id_list=...): [none, ids]
  num_workers,          \* get_infos(num_workers=...)
  has_label,            \* get_infos(has_label=...)
  sample_id_list,       \* the local of get_infos, lines 125-126
  fut,                  \* the futures executor.map created, in submit order
  mpc,                  \* position of the thread that called get_infos
  ret,                  \* how get_infos ended: [outcome, infos, err]
  call,                 \* number of the get_infos call in progress
  prev                  \* files and ret at the end of the previous call

\* ScanNetSegData and the call of get_seg_infos
VARIABLES
  data_infos,           \* self.data_infos: the records mmcv.load(ann_file) gave
  mask_files,           \* the file behind each record's pts_semantic_mask_path
  num_points,           \* self.num_points
  spc,                  \* position of get_seg_infos
  idx,                  \* records the loop of lines 207-212 has handled
  mask,                 \* local of _convert_to_label after line 192
  label,                \* its return value
  num_point_all,        \* list of the scenes' label counts
  label_weight,         \* the class histogram, then the class frequencies
  scene_idxs,           \* the resampled scene indices
  seg_info,             \* root/seg_info/{split}_*.npy: [saved, scene_idxs, label_weight]
  seg_err               \* the exception that ended get_seg_infos

segvars == << data_infos, mask_files, num_points, spc, idx, mask, label,
              num_point_all, label_weight, scene_idxs, seg_info, seg_err >>

infovars == << raw, files, files0, dirs, self_sample_id_list, arg_sample_id_list,
               num_workers, has_label, sample_id_list, fut, mpc, ret, call, prev >>

vars == << infovars, segvars >>

\* what no step of get_infos changes
fixed == << raw, files0, self_sample_id_list, arg_sample_id_list,
            num_workers, has_label, segvars >>

NoArr  == [dtype |-> "", data |-> << >>]
NoInfo == [none |-> TRUE]
NoErr  == [type |-> "", path |-> << >>, id |-> 0]
NoRet  == [outcome |-> "running", infos |-> << >>, err |-> NoErr]

FileNotFoundError(path) == [type |-> "FileNotFoundError", path |-> path, id |-> 0]
KeyError(id) == [type |-> "KeyError", path |-> << >>, id |-> id]

RawPath(s, suffix) == << RAW_DIR, s, suffix >>

\* ------------------------------------------------ process_single_scene
\* variant: a lookup with a default, cat_ids2class.get(id, 0)
class_of_default(id) ==
  [hit |-> TRUE, cls |-> IF id \in DOMAIN cat_ids2class THEN cat_ids2class[id] ELSE 0]

\* self.cat_ids2class[classes[i]]: the class index, or KeyError (hit = FALSE)
class_of(id) ==
  IF id \in DOMAIN cat_ids2class
  THEN [hit |-> TRUE, cls |-> cat_ids2class[id]]
  ELSE [hit |-> FALSE, cls |-> 0]

\* variant: np.arange(1, n + 1)
arange_from_one(n) == [i \in 1..n |-> i]

\* np.arange(n, dtype=np.int32)
arange(n) == [i \in 1..n |-> i - 1]

\* lines 105-121: the annotation block of a box array, or the KeyError of the
\* first row (the comprehensions run in row order) whose class id is unmapped
annotations_of(boxes_with_classes) ==
  LET gt_num == Len(boxes_with_classes)
      minmax_boxes3d == [i \in 1..gt_num |-> SubSeq(boxes_with_classes[i], 1, 6)]
      cls == [i \in 1..gt_num |-> boxes_with_classes[i][7]]
      unmapped == {i \in 1..gt_num : ~class_of(cls[i]).hit}
  IN  IF gt_num = 0
      THEN [ok |-> TRUE, annos |-> [gt_num |-> 0], err |-> NoErr]
      ELSE IF unmapped # {}
      THEN [ok |-> FALSE, annos |-> NoInfo,
            err |-> KeyError(cls[CHOOSE i \in unmapped : \A j \in unmapped : i <= j])]
      ELSE [ok |-> TRUE,
            annos |->
              [gt_num |-> gt_num,
               name |-> [i \in 1..gt_num |-> label2cat[class_of(cls[i]).cls]],
               location |-> [i \in 1..gt_num |-> SubSeq(minmax_boxes3d[i], 1, 3)],
               dimensions |-> [i \in 1..gt_num |-> SubSeq(minmax_boxes3d[i], 4, 6)],
               gt_boxes_upright_depth |-> minmax_boxes3d,
               index |-> arange(gt_num),
               class |-> [i \in 1..gt_num |-> class_of(cls[i]).cls]],
            err |-> NoErr]

\* lines 67-69 and 95-99: the record without its annotation block
base_info(sample_idx) ==
  [point_cloud |-> [num_features |-> 6, lidar_idx |-> sample_idx],
   pts_path |-> << "points", sample_idx >>,
   pts_instance_mask_path |-> << "instance_mask", sample_idx >>,
   pts_semantic_mask_path |-> << "semantic_mask", sample_idx >>]

info_with_annos(sample_idx, annotations) ==
  [point_cloud |-> [num_features |-> 6, lidar_idx |-> sample_idx],
   pts_path |-> << "points", sample_idx >>,
   pts_instance_mask_path |-> << "instance_mask", sample_idx >>,
   pts_semantic_mask_path |-> << "semantic_mask", sample_idx >>,
   annos |-> annotations]

\* variant: the semantic mask loaded after the first two files are written
StepAfterWriteEarly(pc) ==
  CASE pc = "load_points" -> "load_ins"
    [] pc = "load_ins"    -> "mkdir"
    [] pc = "mkdir"       -> "write_points"
    [] pc = "write_points" -> "write_ins"
    [] pc = "write_ins"   -> "load_sem"
    [] pc = "load_sem"    -> "write_sem"
    [] pc = "write_sem"   -> "label"
    [] OTHER              -> "done"

\* the statements of process_single_scene in program order
StepAfter(pc) ==
  CASE pc = "load_points" -> "load_ins"
    [] pc = "load_ins"    -> "load_sem"
    [] pc = "load_sem"    -> "mkdir"
    [] pc = "mkdir"       -> "write_points"
    [] pc = "write_points" -> "write_ins"
    [] pc = "write_ins"   -> "write_sem"
    [] pc = "write_sem"   -> "label"
    [] OTHER              -> "done"

NewFuture(sample_idx) ==
  [pc |-> "queued", scene |-> sample_idx,
   points |-> NoArr, ins |-> NoArr, sem |-> NoArr,
   res |-> [kind |-> "pending", info |-> NoInfo, err |-> NoErr]]

Tasks == 1..Len(fut)
Running == {k \in Tasks : fut[k].pc \notin {"queued", "done", "cancelled"}}
Settled(k) == fut[k].pc \in {"done", "cancelled"}

Raise(k, e) ==
  fut' = [fut EXCEPT ![k].pc = "done",
                     ![k].res = [kind |-> "err", info |-> NoInfo, err |-> e]]

Return(k, info) ==
  fut' = [fut EXCEPT ![k].pc = "done",
                     ![k].res = [kind |-> "ok", info |-> info, err |-> NoErr]]

\* a pool thread takes the oldest work item (the work queue is FIFO)
TakeTask(k) ==
  /\ k \in Tasks
  /\ fut[k].pc = "queued"
  /\ \A j \in 1..(k - 1) : fut[j].pc # "queued"
  /\ Cardinality(Running) < num_workers
  /\ fut' = [fut EXCEPT ![k].pc = "load_points"]
  /\ UNCHANGED << fixed, files, dirs, sample_id_list, mpc, ret, call, prev >>

\* line 80: points = np.load(pts_filename)
LoadPoints(k) ==
  /\ k \in Tasks
  /\ fut[k].pc = "load_points"
  /\ LET f == raw[fut[k].scene].vert
     IN  IF f.present
         THEN fut' = [fut EXCEPT ![k].points = np_load(f), ![k].pc = StepAfter(@)]
         ELSE Raise(k, FileNotFoundError(RawPath(fut[k].scene, "_vert.npy")))
  /\ UNCHANGED << fixed, files, dirs, sample_id_list, mpc, ret, call, prev >>

\* line 81: pts_instance_mask = np.load(...).astype(np.long)
LoadIns(k) ==
  /\ k \in Tasks
  /\ fut[k].pc = "load_ins"
  /\ LET f == raw[fut[k].scene].ins
     IN  IF f.present
         THEN fut' = [fut EXCEPT ![k].ins = astype_long(np_load(f)),
                                 ![k].pc = StepAfter(@)]
         ELSE Raise(k, FileNotFoundError(RawPath(fut[k].scene, "_ins_label.npy")))
  /\ UNCHANGED << fixed, files, dirs, sample_id_list, mpc, ret, call, prev >>

\* line 82: pts_semantic_mask = np.load(...).astype(np.long)
LoadSem(k) ==
  /\ k \in Tasks
  /\ fut[k].pc = "load_sem"
  /\ LET f == raw[fut[k].scene].sem
     IN  IF f.present
         THEN fut' = [fut EXCEPT ![k].sem = astype_long(np_load(f)),
                                 ![k].pc = StepAfter(@)]
         ELSE Raise(k, FileNotFoundError(RawPath(fut[k].scene, "_sem_label.npy")))
  /\ UNCHANGED << fixed, files, dirs, sample_id_list, mpc, ret, call, prev >>

\* lines 84-86: mmcv.mkdir_or_exist for the three output directories
Mkdirs(k) ==
  /\ k \in Tasks
  /\ fut[k].pc = "mkdir"
  /\ dirs' = dirs \cup OUT_DIRS
  /\ fut' = [fut EXCEPT ![k].pc = StepAfter(@)]
  /\ UNCHANGED << fixed, files, sample_id_list, mpc, ret, call, prev >>

\* arr.tofile(osp.join(root, dir, f'{sample_idx}.bin'))
WriteFile(k, dir, arr) ==
  LET s == fut[k].scene
  IN  IF dir \in dirs
      THEN /\ files' = [files EXCEPT ![dir][s] = tofile(arr, @)]
           /\ fut' = [fut EXCEPT ![k].pc = StepAfter(@)]
      ELSE /\ Raise(k, FileNotFoundError(<< dir, s >>))
           /\ UNCHANGED files

\* lines 88-89
WritePoints(k) ==
  /\ k \in Tasks
  /\ fut[k].pc = "write_points"
  /\ WriteFile(k, "points", fut[k].points)
  /\ UNCHANGED << fixed, dirs, sample_id_list, mpc, ret, call, prev >>

\* lines 90-91
WriteIns(k) ==
  /\ k \in Tasks
  /\ fut[k].pc = "write_ins"
  /\ WriteFile(k, "instance_mask", fut[k].ins)
  /\ UNCHANGED << fixed, dirs, sample_id_list, mpc, ret, call, prev >>

\* lines 92-93
WriteSem(k) ==
  /\ k \in Tasks
  /\ fut[k].pc = "write_sem"
  /\ WriteFile(k, "semantic_mask", fut[k].sem)
  /\ UNCHANGED << fixed, dirs, sample_id_list, mpc, ret, call, prev >>

\* lines 95-123 (with get_box_label, lines 44-48): the paths, the annotation
\* block when has_label, and the return
Label(k) ==
  /\ k \in Tasks
  /\ fut[k].pc = "label"
  /\ LET s == fut[k].scene
         box_file == raw[s].bbox
         built == annotations_of(np_load(box_file).data)
     IN  IF ~has_label
         THEN Return(k, base_info(s))
         ELSE IF ~box_file.present
         THEN Raise(k, FileNotFoundError(RawPath(s, "_bbox.npy")))
         ELSE IF ~built.ok
         THEN Raise(k, built.err)
         ELSE Return(k, info_with_annos(s, built.annos))
  /\ UNCHANGED << fixed, files, dirs, sample_id_list, mpc, ret, call, prev >>

\* ------------------------------------------------------------- get_infos
\* lines 125-127: choose the list and create the executor
Start ==
  /\ mpc = "start"
  /\ sample_id_list' = IF arg_sample_id_list.none THEN self_sample_id_list
                       ELSE arg_sample_id_list.ids
  /\ mpc' = "map"
  /\ UNCHANGED << fixed, files, dirs, fut, ret, call, prev >>

\* line 128: executor.map submits one future per element, in list order
Submit ==
  /\ mpc = "map"
  /\ Len(fut) < Len(sample_id_list)
  /\ fut' = Append(fut, NewFuture(sample_id_list[Len(fut) + 1]))
  /\ UNCHANGED << fixed, files, dirs, sample_id_list, mpc, ret, call, prev >>

\* variant: shutdown(wait=False)
NoWait == TRUE

\* leaving the with block: ThreadPoolExecutor.__exit__ is shutdown(wait=True),
\* which joins the pool's threads, and they run until the work queue is empty

AllSettled == \A k \in Tasks : Settled(k)

ExecutorExit ==
  /\ mpc = "map"
  /\ Len(fut) = Len(sample_id_list)
  /\ AllSettled
  /\ mpc' = "collect"
  /\ UNCHANGED << fixed, files, dirs, sample_id_list, fut, ret, call, prev >>

\* line 129: list(infos) takes the futures' results in submit order; the first
\* future that raised ends the iteration with its exception
FirstFailed(fs) ==
  IF \E k \in 1..Len(fs) : fs[k].res.kind = "err"
  THEN CHOOSE k \in 1..Len(fs) :
         /\ fs[k].res.kind = "err"
         /\ \A j \in 1..(k - 1) : fs[j].res.kind # "err"
  ELSE 0

\* variant: the records of the scenes that succeeded
list_infos_skip_failed(fs) ==
  LET ok == SelectSeq(fs, LAMBDA f : f.res.kind = "ok")
  IN  [outcome |-> "returned", infos |-> [i \in 1..Len(ok) |-> ok[i].res.info],
       err |-> NoErr]

\* variant: one record per distinct scene id
list_infos_dedup(fs) ==
  LET first == SelectSeq([k \in 1..Len(fs) |-> k],
                         LAMBDA k : \A j \in 1..(k - 1) : fs[j].scene # fs[k].scene)
  IN  IF FirstFailed(fs) # 0
      THEN [outcome |-> "raised", infos |-> << >>, err |-> fs[FirstFailed(fs)].res.err]
      ELSE [outcome |-> "returned",
            infos |-> [i \in 1..Len(first) |-> fs[first[i]].res.info],
            err |-> NoErr]

\* list(infos)
list_infos(fs) ==
  IF FirstFailed(fs) # 0
  THEN [outcome |-> "raised", infos |-> << >>, err |-> fs[FirstFailed(fs)].res.err]
  ELSE [outcome |-> "returned", infos |-> [i \in 1..Len(fs) |-> fs[i].res.info],
        err |-> NoErr]

\* result() blocks until its future is done: the iteration needs every future
\* up to the first failed one
CanCollect ==
  \A k \in Tasks :
    (\A j \in 1..(k - 1) : fut[j].res.kind = "ok") => fut[k].pc = "done"

Collect ==
  /\ mpc = "collect"
  /\ CanCollect
  /\ ret' = list_infos(fut)
  /\ mpc' = ret'.outcome
  \* the result iterator cancels the futures still waiting in the queue
  /\ fut' = [k \in Tasks |->
               IF ret'.outcome = "raised" /\ fut[k].pc = "queued"
               THEN [fut[k] EXCEPT !.pc = "cancelled"] ELSE fut[k]]
  /\ UNCHANGED << fixed, files, dirs, sample_id_list, call, prev >>

Finished == mpc \in {"returned", "raised"}

\* the caller runs get_infos again on the same object with the same arguments
MaxCalls == 2

Rerun ==
  /\ Finished
  /\ call < MaxCalls
  /\ prev' = [files |-> files, ret |-> ret]
  /\ call' = call + 1
  /\ mpc' = "start"
  /\ fut' = << >>
  /\ ret' = NoRet
  /\ sample_id_list' = << >>
  /\ UNCHANGED << fixed, files, dirs >>

\* ---------------------------------------------------------- ScanNetSegData
\* self.all_ids = np.arange(41): the length of cat_id2class
NumAllIds == 41

seg_cat_ids ==
  << 1, 2, 3, 4, 5, 6, 7, 8, 9, 10, 11, 12, 14, 16, 24, 28, 33, 34, 36, 39 >>

\* self.ignore_index = len(self.cat_ids)
ignore_index == Len(seg_cat_ids)

\* lines 162-165: an array of NumAllIds entries, ignore_index everywhere but at
\* the ids of seg_cat_ids, which hold their position in seg_cat_ids
cat_id2class ==
  [j \in 0..(NumAllIds - 1) |->
     IF \E i \in 1..Len(seg_cat_ids) : seg_cat_ids[i] = j
     THEN (CHOOSE i \in 1..Len(seg_cat_ids) : seg_cat_ids[i] = j) - 1
     ELSE ignore_index]

IndexError(id) == [type |-> "IndexError", path |-> << >>, id |-> id]
ValueError == [type |-> "ValueError", path |-> << >>, id |-> 0]

\* variant: every index outside 0..len-1 gives the ignore index
take_clipped(i) ==
  [ok |-> TRUE,
   val |-> IF 0 <= i /\ i < NumAllIds THEN cat_id2class[i] ELSE ignore_index]

\* arr[i] of a numpy array: a negative index counts from the end, an index
\* outside -len..len-1 raises IndexError
take(i) ==
  IF 0 <= i /\ i < NumAllIds THEN [ok |-> TRUE, val |-> cat_id2class[i]]
  ELSE IF -NumAllIds <= i /\ i < 0 THEN [ok |-> TRUE, val |-> cat_id2class[NumAllIds + i]]
  ELSE [ok |-> FALSE, val |-> 0]

\* A mask is kept run-length encoded: a sequence of runs [id, n], n >= 1 equal
\* elements each.  A file name is the sequence of its characters.
Run(id, n) == [id |-> id, n |-> n]

RECURSIVE Count(_)
Count(runs) == IF runs = << >> THEN 0 ELSE Head(runs).n + Count(Tail(runs))

\* str.endswith
endswith(name, suffix) ==
  /\ Len(name) >= Len(suffix)
  /\ SubSeq(name, Len(name) - Len(suffix) + 1, Len(name)) = suffix

\* np.fromfile(path, dtype=np.long): the file's bytes as int64, whatever wrote
\* them.  An .npy file starts with the magic string and version, which read as
\* one int64 are 0x00015950_4D554E93; the model keeps that word as the largest
\* integer it has.
np_fromfile(file) ==
  IF file.fmt = "npy" THEN << Run(2147483647, 1) >> \o file.data ELSE file.data

\* variant: a name ending in neither npy nor bin is rejected
convert_to_label_by_suffix(name, file) ==
  LET known == endswith(name, <<"n", "p", "y">>) \/ endswith(name, <<"b", "i", "n">>)
      loaded == IF endswith(name, <<"n", "p", "y">>) THEN file.data ELSE np_fromfile(file)
      kept == SelectSeq(loaded, LAMBDA r : r.id # 0)
  IN  IF ~known \/ ~file.present \/ \E j \in 1..Len(kept) : ~take(kept[j].id).ok
      THEN [ok |-> FALSE, mask |-> << >>, label |-> << >>, err |-> ValueError]
      ELSE [ok |-> TRUE, mask |-> kept,
            label |-> [j \in 1..Len(kept) |-> Run(take(kept[j].id).val, kept[j].n)],
            err |-> NoErr]

\* lines 186-195
convert_to_label(name, file) ==
  LET as_npy == endswith(name, <<"n", "p", "y">>)
      loaded == IF as_npy THEN file.data ELSE np_fromfile(file)
      kept == SelectSeq(loaded, LAMBDA r : r.id # 0)
      outside == {j \in 1..Len(kept) : ~take(kept[j].id).ok}
  IN  IF ~file.present
      THEN [ok |-> FALSE, mask |-> << >>, label |-> << >>,
            err |-> FileNotFoundError(name)]
      ELSE IF as_npy /\ file.fmt # "npy"
      THEN [ok |-> FALSE, mask |-> << >>, label |-> << >>, err |-> ValueError]
      ELSE IF outside # {}
      THEN [ok |-> FALSE, mask |-> kept, label |-> << >>,
            err |-> IndexError(kept[CHOOSE j \in outside : \A h \in outside : j <= h].id)]
      ELSE [ok |-> TRUE, mask |-> kept,
            label |-> [j \in 1..Len(kept) |-> Run(take(kept[j].id).val, kept[j].n)],
            err |-> NoErr]

\* np.histogram(label, range(num_classes + 2)): one bin per class 0..ignore_index
histogram(lab) ==
  [c \in 0..ignore_index |->
     Count(SelectSeq(lab, LAMBDA r : r.id = c))]

RECURSIVE Sum(_)
Sum(xs) == IF xs = << >> THEN 0 ELSE Head(xs) + Sum(Tail(xs))

\* variant: int(sample_prob[idx] * num_iter)
repeats_floor(n, total, num_iter) == {(n * num_iter) \div total}

\* round(sample_prob[idx] * num_iter) for sample_prob[idx] = n / total: the
\* product is a float64 and round takes the nearest integer.  When n * num_iter
\* / total is exactly a half the float64 product lies on either side of it
\* (15 / 22 * 11 is 7.499999999999999, 21 / 38 * 19 is 10.500000000000002), so
\* both neighbours are results.
repeats(n, total, num_iter) ==
  LET q == (n * num_iter) \div total
      r == (n * num_iter) % total
  IN  IF 2 * r < total THEN {q}
      ELSE IF 2 * r > total THEN {q + 1}
      ELSE {q, q + 1}

\* [idx] * k
Repeat(x, k) == [j \in 1..k |-> x]

RECURSIVE resampled(_, _, _, _)
\* lines 217-219 from scene i on (numpy's idx is i - 1): every sequence the
\* loop can build
resampled(counts, total, num_iter, i) ==
  IF i > Len(counts) THEN {<< >>}
  ELSE {Repeat(i - 1, k) \o rest :
          k \in repeats(counts[i], total, num_iter),
          rest \in resampled(counts, total, num_iter, i + 1)}

NoSegInfo == [saved |-> FALSE, scene_idxs |-> << >>, label_weight |-> << >>]

SegIdle ==
  /\ data_infos = << >>
  /\ mask_files = << >>
  /\ num_points = 1
  /\ spc = "idle"
  /\ idx = 0
  /\ mask = << >>
  /\ label = << >>
  /\ num_point_all = << >>
  /\ label_weight = << >>
  /\ scene_idxs = << >>
  /\ seg_info = NoSegInfo
  /\ seg_err = NoErr

SegFail(e) ==
  /\ spc' = "raised"
  /\ seg_err' = e

\* lines 208-209: label = self._convert_to_label(osp.join(data_root, path))
ConvertToLabel ==
  /\ spc = "loop"
  /\ idx < Len(data_infos)
  /\ LET c == convert_to_label(data_infos[idx + 1].pts_semantic_mask_path,
                               mask_files[idx + 1])
     IN  /\ mask' = c.mask
         /\ label' = c.label
         /\ IF c.ok THEN spc' = "count" /\ UNCHANGED seg_err ELSE SegFail(c.err)
  /\ UNCHANGED << infovars, data_infos, mask_files, num_points, idx,
                  num_point_all, label_weight, scene_idxs, seg_info >>

\* lines 210-212
Accumulate ==
  /\ spc = "count"
  /\ num_point_all' = Append(num_point_all, Count(label))
  /\ label_weight' = [c \in 0..ignore_index |-> label_weight[c] + histogram(label)[c]]
  /\ idx' = idx + 1
  /\ spc' = "loop"
  /\ UNCHANGED << infovars, data_infos, mask_files, num_points, mask, label,
                  scene_idxs, seg_info, seg_err >>

\* lines 215-220.  With no point left in any scene sample_prob is nan and
\* round(nan) raises ValueError.
Resample ==
  /\ spc = "loop"
  /\ idx = Len(data_infos)
  /\ LET total == Sum(num_point_all)
         num_iter == total \div num_points
     IN  IF total = 0 /\ Len(data_infos) > 0
         THEN SegFail(ValueError) /\ UNCHANGED scene_idxs
         ELSE /\ scene_idxs' \in resampled(num_point_all, total, num_iter, 1)
              /\ spc' = "weight"
              /\ UNCHANGED seg_err
  /\ UNCHANGED << infovars, data_infos, mask_files, num_points, idx, mask, label,
                  num_point_all, label_weight, seg_info >>

\* lines 223-225: the ignore entry dropped, the rest divided by its sum.  The
\* weight function (1 / log(1.2 + x) by default) is real valued; the model
\* keeps its argument, the frequency num / den.
Weights ==
  /\ spc = "weight"
  /\ LET den == Sum([c \in 1..ignore_index |-> label_weight[c - 1]])
     IN  label_weight' = [c \in 0..(ignore_index - 1) |->
                            [num |-> label_weight[c], den |-> den]]
  /\ spc' = "save"
  /\ UNCHANGED << infovars, data_infos, mask_files, num_points, idx, mask, label,
                  num_point_all, scene_idxs, seg_info, seg_err >>

\* lines 174-182: the two np.save calls
Save ==
  /\ spc = "save"
  /\ seg_info' = [saved |-> TRUE, scene_idxs |-> scene_idxs,
                  label_weight |-> label_weight]
  /\ spc' = "returned"
  /\ UNCHANGED << infovars, data_infos, mask_files, num_points, idx, mask, label,
                  num_point_all, label_weight, scene_idxs, seg_err >>

InitCommon ==
  /\ files = files0
  /\ dirs = IF \E s \in SceneIds : files0["points"][s].present THEN OUT_DIRS ELSE {}
  /\ has_label \in BOOLEAN
  /\ sample_id_list = << >>
  /\ fut = << >>
  /\ mpc = "start"
  /\ ret = NoRet
  /\ call = 1
  /\ prev = [files |-> files0, ret |-> NoRet]
  /\ SegIdle

\* several scenes of fixed content under every list, worker count and schedule
InitPool ==
  /\ raw = PoolRaw
  /\ files0 = FilesWithStale(PoolStale)
  /\ num_workers \in 1..MaxWorkers
  /\ \E ids \in SeqsUpTo(PoolScenes, MaxScenes) :
       \/ /\ arg_sample_id_list = [none |-> TRUE, ids |-> << >>]
          /\ self_sample_id_list = ids
       \/ /\ arg_sample_id_list = [none |-> FALSE, ids |-> ids]
          /\ self_sample_id_list = << "scene0000_00" >>
  /\ InitCommon

\* one scene under every combination of its raw files
InitProbe ==
  /\ raw \in {[PoolRaw EXCEPT ![ProbeScene] = r] : r \in ProbeRaws}
  /\ files0 \in {FilesWithStale({}), FilesWithStale({ProbeScene})}
  /\ num_workers = 1
  /\ arg_sample_id_list = [none |-> TRUE, ids |-> << >>]
  /\ self_sample_id_list = << ProbeScene >>
  /\ InitCommon

Init == InitPool \/ InitProbe


\* get_infos is not running
InfoIdle ==
  /\ raw = PoolRaw
  /\ files0 = FilesWithStale({})
  /\ files = files0
  /\ dirs = {}
  /\ self_sample_id_list = << >>
  /\ arg_sample_id_list = [none |-> TRUE, ids |-> << >>]
  /\ num_workers = 1
  /\ has_label = TRUE
  /\ sample_id_list = << >>
  /\ fut = << >>
  /\ mpc = "idle"
  /\ ret = NoRet
  /\ call = 1
  /\ prev = [files |-> files0, ret |-> NoRet]

\* raw ids a semantic mask may hold: unannotated (0), ids of the segmentation
\* table (1, 39), ids of 0..40 outside it (13, 40), ids outside 0..40
MaskIds == {0, 1, 13, 39, 40, 41, -1, -2, -41, -42}

MaskExts == { <<".", "b", "i", "n">>, <<".", "n", "p", "y">>,
              <<".", "t", "x", "t">>, <<"n", "p", "y">> }

MaskFile(fmt, data) ==
  [present |-> TRUE, fmt |-> fmt, dtype |-> "int64", data |-> data]

\* points of a scene that carry a class, and points that carry raw id 0
PointCounts == {0, 1, 3, 100, 300, 600}
UnlabelledCounts == {0, 50}
SampleSizes == {2, 100}

SceneMask(n, z) ==
  MaskFile("bin", (IF z > 0 THEN << Run(0, z) >> ELSE << >>)
                  \o (IF n > 0 THEN << Run(3, n) >> ELSE << >>))

\* lines 204-206, reached from get_seg_infos (line 173)
SegCommon ==
  /\ spc = "loop"
  /\ idx = 0
  /\ mask = << >>
  /\ label = << >>
  /\ num_point_all = << >>
  /\ label_weight = [c \in 0..ignore_index |-> 0]
  /\ scene_idxs = << >>
  /\ seg_info = NoSegInfo
  /\ seg_err = NoErr

\* one record whose mask file ranges over names, formats and raw ids
InitRemap ==
  /\ \E ext \in MaskExts :
       data_infos = << [pts_semantic_mask_path |-> << "semantic_mask/0" >> \o ext] >>
  /\ \E f \in {NoFile} \cup
              {MaskFile(fmt, d) :
                 fmt \in {"bin", "npy"},
                 d \in SeqsUpTo({Run(id, 1) : id \in MaskIds}, MaxRuns)} :
       mask_files = << f >>
  /\ num_points = 1
  /\ SegCommon
  /\ InfoIdle

\* the records get_infos wrote, with masks of every size
InitResample ==
  /\ \E len \in 0..MaxInfos :
       /\ data_infos = [i \in 1..len |->
                          [pts_semantic_mask_path |->
                             << "semantic_mask/", i, ".", "b", "i", "n" >>]]
       /\ mask_files \in [1..len -> {SceneMask(n, z) : n \in PointCounts,
                                                       z \in UnlabelledCounts}]
  /\ num_points \in SampleSizes
  /\ SegCommon
  /\ InfoIdle

InitSeg == InitRemap \/ InitResample

Worker(k) ==
  \/ TakeTask(k)
  \/ LoadPoints(k)
  \/ LoadIns(k)
  \/ LoadSem(k)
  \/ Mkdirs(k)
  \/ WritePoints(k)
  \/ WriteIns(k)
  \/ WriteSem(k)
  \/ Label(k)

Next ==
  \/ Start
  \/ Submit
  \/ ExecutorExit
  \/ Collect
  \/ \E k \in 1..MaxScenes : Worker(k)

Spec == Init /\ [][Next]_vars

NextRerun == Next \/ Rerun

SpecRerun == Init /\ [][NextRerun]_vars

NextSeg ==
  \/ ConvertToLabel
  \/ Accumulate
  \/ Resample
  \/ Weights
  \/ Save

SpecSeg == InitSeg /\ [][NextSeg]_vars


\* ================================================================ claims
\* what the caller asked for, lines 125-126
Requested ==
  IF arg_sample_id_list.none THEN self_sample_id_list ELSE arg_sample_id_list.ids

InDetTable(id) == \E i \in 1..Len(det_cat_ids) : det_cat_ids[i] = id

RawComplete(s) == raw[s].vert.present /\ raw[s].ins.present /\ raw[s].sem.present

\* the scene reaches the class lookup and one of its box rows has no class
HasUnmappedBox(s) ==
  /\ RawComplete(s)
  /\ raw[s].bbox.present
  /\ \E i \in 1..Len(raw[s].bbox.data) : ~InDetTable(raw[s].bbox.data[i][7])

C2_AllOrNothing ==
  Finished =>
    /\ Len(fut) = Len(Requested)
    /\ \/ /\ \A k \in Tasks : fut[k].res.kind = "ok"
          /\ ret.outcome = "returned"
          /\ Len(ret.infos) = Len(Requested)
          /\ ret.err = NoErr
       \/ /\ \E k \in Tasks : fut[k].res.kind = "err" /\ ret.err = fut[k].res.err
          /\ ret.outcome = "raised"
          /\ ret.infos = << >>

C2_Witness ==
  /\ mpc = "raised"
  /\ num_workers = 2
  /\ Len(fut) = 2
  /\ fut[1].res.kind = "err"
  /\ fut[2].res.kind = "ok"
  /\ ret.infos = << >>

\* what process_single_scene writes for a scene whose raw arrays are all there
Converted(s, d) ==
  LET src == IF d = "points" THEN raw[s].vert
             ELSE IF d = "instance_mask" THEN raw[s].ins ELSE raw[s].sem
  IN  [present |-> TRUE, fmt |-> "bin",
       dtype |-> IF d = "points" THEN src.dtype ELSE "int64", data |-> src.data]

Drained ==
  /\ Len(fut) = Len(Requested)
  /\ \A k \in Tasks :
       /\ fut[k].pc = "done"
       /\ fut[k].res.kind \in {"ok", "err"}
       /\ RawComplete(fut[k].scene) =>
            \A d \in OUT_DIRS : files[d][fut[k].scene] = Converted(fut[k].scene, d)

\* C3: when get_infos has returned or raised, every requested scene was
\* started and has finished, the three files of every scene whose raw arrays
\* exist are written whatever happened to the other scenes, and from then on
\* no file changes.
C3_PoolDrains ==
  /\ [](Finished => Drained)
  /\ [][Finished => (files' = files /\ fut' = fut)]_vars

C3_Witness ==
  /\ mpc = "raised"
  /\ num_workers = 2
  /\ Len(fut) = 2
  /\ fut[1].res.kind = "err"
  /\ fut[2].res.kind = "ok"
  /\ fut[2].scene # fut[1].scene
  /\ \A d \in OUT_DIRS : /\ files[d][fut[2].scene] = Converted(fut[2].scene, d)
                         /\ files[d][fut[2].scene] # files0[d][fut[2].scene]

\* ------------------------------------------------------- segmentation
InSegTable(id) == \E i \in 1..Len(seg_cat_ids) : seg_cat_ids[i] = id
SegPosition(id) == (CHOOSE i \in 1..Len(seg_cat_ids) : seg_cat_ids[i] = id) - 1

NamedNpy(name) == endswith(name, <<"n", "p", "y">>)

\* the file is read by the reader that matches how it was written
ReadAsWritten(i) ==
  /\ mask_files[i].present
  /\ NamedNpy(data_infos[i].pts_semantic_mask_path) <=> mask_files[i].fmt = "npy"

NonZero(data) == SelectSeq(data, LAMBDA r : r.id # 0)

\* C4 as claimed: after the points of raw id 0 are removed, no id raises an
\* error and every id outside the 20-entry table, also one above 40 or below
\* 0, becomes the ignore index 20.
C4_AsClaimed ==
  (spc \in {"count", "raised"} /\ idx < Len(data_infos) /\ ReadAsWritten(idx + 1)) =>
    /\ spc = "count"
    /\ Len(label) = Len(mask)
    /\ \A j \in 1..Len(mask) :
         /\ mask[j].id # 0
         /\ InSegTable(mask[j].id) => label[j].id = SegPosition(mask[j].id)
         /\ ~InSegTable(mask[j].id) => label[j].id = ignore_index

\* C4: after the points of raw id 0 are removed, an id of the table becomes
\* its position 0..19, an id of 0..40 outside the table becomes the ignore
\* index 20, an id of -41..-1 becomes what id + 41 becomes (so -2 becomes the
\* valid class 19), and an id above 40 or below -41 raises IndexError.
C4_Remap ==
  (spc \in {"count", "raised"} /\ idx < Len(data_infos) /\ ReadAsWritten(idx + 1)) =>
    LET kept == NonZero(mask_files[idx + 1].data)
        outside == {j \in 1..Len(kept) : kept[j].id > 40 \/ kept[j].id < -41}
        class(id) == IF InSegTable(id) THEN SegPosition(id) ELSE ignore_index
    IN  /\ mask = kept
        /\ outside # {} =>
             /\ spc = "raised"
             /\ seg_err.type = "IndexError"
             /\ \E j \in outside : seg_err.id = kept[j].id
        /\ outside = {} =>
             /\ spc = "count"
             /\ Len(label) = Len(kept)
             /\ \A j \in 1..Len(kept) :
                  /\ label[j].n = kept[j].n
                  /\ kept[j].id >= 0 => label[j].id = class(kept[j].id)
                  /\ kept[j].id < 0 => label[j].id = class(kept[j].id + 41)

C4_Witness ==
  /\ spc = "count"
  /\ ReadAsWritten(idx + 1)
  /\ \E j \in 1..Len(mask) : mask[j].id = -2 /\ label[j].id = 19
  /\ \E j \in 1..Len(mask) : mask[j].id = 13 /\ label[j].id = 20

\* points of scene i left after the points of raw id 0 are removed
KeptPoints(i) == Count(NonZero(mask_files[i].data))

Occurrences(seq, x) == Len(SelectSeq(seq, LAMBDA y : y = x))

Abs(x) == IF x < 0 THEN -x ELSE x

Unsupported(name) == ~NamedNpy(name) /\ ~endswith(name, <<".", "b", "i", "n">>)

AnnoArrays == {"name", "location", "dimensions", "gt_boxes_upright_depth",
               "index", "class"}

\* C6: every record get_infos returns with has_label has an annotation block
\* shaped by gt_num, the row count of the scene's box array: gt_num = 0 gives
\* the count alone, gt_num = K > 0 gives the six arrays, each of length K, and
\* index = [0, ..., K - 1].
C6_AnnotationShape ==
  (mpc = "returned" /\ has_label) =>
    \A k \in 1..Len(ret.infos) :
      LET s == ret.infos[k].point_cloud.lidar_idx
          K == Len(raw[s].bbox.data)
          annos == ret.infos[k].annos
      IN  /\ "annos" \in DOMAIN ret.infos[k]
          /\ annos.gt_num = K
          /\ K = 0 => DOMAIN annos = {"gt_num"}
          /\ K > 0 =>
               /\ DOMAIN annos = AnnoArrays \cup {"gt_num"}
               /\ \A a \in AnnoArrays : Len(annos[a]) = K
               /\ \A i \in 1..K : annos.index[i] = i - 1

C6_Witness ==
  /\ mpc = "returned"
  /\ has_label
  /\ Len(ret.infos) = 2
  /\ ret.infos[1].annos.gt_num = 2
  /\ ret.infos[1].annos.index = << 0, 1 >>
  /\ ret.infos[2].annos = [gt_num |-> 0]

\* C8: a second get_infos call with the same arguments and unchanged raw files
\* leaves every canonical file with the content it had after the first call
\* and ends as the first call ended, with the same records.
C8_Idempotent ==
  (call > 1 /\ Finished) => (files = prev.files /\ ret = prev.ret)

C8_Witness ==
  /\ call = 2
  /\ mpc = "returned"
  /\ num_workers = 2
  /\ Len(ret.infos) = 2
  /\ ret.infos[1].point_cloud.lidar_idx = ret.infos[2].point_cloud.lidar_idx
  /\ files # files0
  /\ prev.ret.outcome = "returned"

\* C9 as claimed: no two records of a returned list carry the same lidar_idx,
\* whatever list was requested.
C9_AsClaimed ==
  mpc = "returned" =>
    \A i, j \in 1..Len(ret.infos) :
      i # j => ret.infos[i].point_cloud.lidar_idx # ret.infos[j].point_cloud.lidar_idx

\* C9: the returned list has one record per element of the requested list, in
\* the order of that list, so a scene id is carried by as many records as the
\* list names it: by one record when the list names no id twice.
C9_OneRecordPerElement ==
  mpc = "returned" =>
    /\ Len(ret.infos) = Len(Requested)
    /\ \A k \in 1..Len(Requested) :
         ret.infos[k].point_cloud.lidar_idx = Requested[k]
    /\ \A s \in SceneIds :
         Occurrences([k \in 1..Len(ret.infos) |-> ret.infos[k].point_cloud.lidar_idx], s)
           = Occurrences(Requested, s)

C9_Witness ==
  /\ mpc = "returned"
  /\ num_workers = 2
  /\ Len(ret.infos) = 2
  /\ Requested[1] = Requested[2]
  /\ ret.infos[1].point_cloud.lidar_idx = ret.infos[2].point_cloud.lidar_idx

BoxErr(k) ==
  /\ fut[k].res.kind = "err"
  /\ \/ fut[k].res.err = FileNotFoundError(RawPath(fut[k].scene, "_bbox.npy"))
     \/ fut[k].res.err.type = "KeyError"

\* C10: a scene one of whose three raw arrays is absent leaves its three
\* canonical files as they were; a task has its three arrays loaded before it
\* writes a file; and a task that fails on the box file (absent, or holding an
\* unmapped class id) fails with the three canonical files written.
C10_LoadWriteOrder ==
  /\ \A s \in SceneIds :
       ~RawComplete(s) => \A d \in OUT_DIRS : files[d][s] = files0[d][s]
  /\ \A k \in Tasks :
       /\ fut[k].pc \in {"write_points", "write_ins", "write_sem", "label"} =>
            /\ fut[k].points = [dtype |-> raw[fut[k].scene].vert.dtype,
                                data |-> raw[fut[k].scene].vert.data]
            /\ fut[k].ins = [dtype |-> "int64", data |-> raw[fut[k].scene].ins.data]
            /\ fut[k].sem = [dtype |-> "int64", data |-> raw[fut[k].scene].sem.data]
            /\ RawComplete(fut[k].scene)
       /\ (fut[k].pc = "done" /\ has_label /\ RawComplete(fut[k].scene)
           /\ (~raw[fut[k].scene].bbox.present \/ HasUnmappedBox(fut[k].scene)))
            => BoxErr(k)
       /\ BoxErr(k) =>
            \A d \in OUT_DIRS : files[d][fut[k].scene] = Converted(fut[k].scene, d)

C10_Witness ==
  /\ Finished
  /\ Len(fut) = 2
  /\ fut[1].res.err = FileNotFoundError(RawPath(fut[1].scene, "_bbox.npy"))
  /\ \A d \in OUT_DIRS : files[d][fut[1].scene] = Converted(fut[1].scene, d)
  /\ fut[2].res.err = FileNotFoundError(RawPath(fut[2].scene, "_sem_label.npy"))
  /\ \A d \in OUT_DIRS : files[d][fut[2].scene] = StaleFile

====
